---- MODULE Spec2Model ----
(***************************************************************************)
(* Order fulfilment of the nesttest e-commerce backend: OrdersService      *)
(* (create / cancel / processPayment / updateStatus) over the products     *)
(* and orders tables of a PostgreSQL store (READ COMMITTED), as concurrent *)
(* request handlers, and ProductsService (create / remove /                *)
(* searchProducts) with its read-through cache.  Every await of a handler  *)
(* that reads or writes the store or the cache, takes a row lock, calls    *)
(* the payment collaborator or sleeps is one step.                         *)
(***************************************************************************)
EXTENDS Integers, Sequences, FiniteSets, TLC

\* ------------------------------------------------------------------ bounds
NumProcs    == 2   \* request handlers running concurrently
NumProducts == 2   \* product rows 1..NumProducts
NumUsers    == 1   \* user rows 1..NumUsers
MaxOrders   == 2   \* order ids the sequence hands out
MaxItems    == 2   \* lines of one CreateOrderDto
MaxQty      == 2   \* quantity of one line
InitStock   == 2   \* stock of every product at start
MaxStock    == 6   \* cap on a stock value written by cancel
WidgetStock == 5   \* end-to-end scenario: the stock of the product
WidgetQty   == 3   \* end-to-end scenario: the units of one order
MaxCalls    == 3   \* calls started in one run
MaxQueryLen == 2   \* characters of a search query
MaxCategories == 3 \* category rows
MaxDepth    == 4   \* nested calls of a tree builder before the call stack
                   \* is exhausted (more than the depth of any category tree)

\* --------------------------------------------------------- program constants
MAX_ATTEMPTS == 5     \* processPayment: attempts of one call
BASE_DELAY   == 200   \* processPayment: first backoff delay (ms)
JITTER       == 100   \* processPayment: Math.random() * 100
SEARCH_TAKE  == 20    \* searchProducts: take

Procs         == 1..NumProcs
ProductIds    == 1..NumProducts
ReqProductIds == 1..(NumProducts + 1)   \* the last id names no product row
                                        \* until ProductsService.create adds it
UserIds       == 1..NumUsers
ReqUserIds    == 1..(NumUsers + 1)      \* the last id names no user row
OrderIds      == 1..MaxOrders

\* OrderStatus (README.md, Order.status)
PENDING   == "pending"
CONFIRMED == "confirmed"
SHIPPED   == "shipped"
DELIVERED == "delivered"
CANCELLED == "cancelled"
OrderStatus == {PENDING, CONFIRMED, SHIPPED, DELIVERED, CANCELLED}

\* CreateOrderDto.items: 1..MaxItems lines of (productId, quantity >= 1)
ItemDtos == [productId : ReqProductIds, quantity : 1..MaxQty]
ItemLists == UNION {[1..n -> ItemDtos] : n \in 1..MaxItems}

\* outcomes of a call, as the handler returns or throws them
OK                  == "ok"
USER_NOT_FOUND      == "BadRequest: User not found"
INSUFFICIENT_STOCK  == "BadRequest: Insufficient stock"
TX_ERROR            == "QueryFailedError"
ORDER_NOT_FOUND     == "NotFound: Order not found"
PRODUCT_NOT_FOUND   == "NotFound: Product not found"
NOT_PENDING_PAY     == "BadRequest: Cannot process payment"
NOT_PENDING_CANCEL  == "BadRequest: Only pending orders can be cancelled"
PAYMENT_UNAVAILABLE == "BadRequest: Payment service is currently unavailable"
USER_MISSING        == "NotFound: User not found"
NoResult            == [op |-> "none", id |-> 0, out |-> "none"]

\* the HTTP status of an outcome: the status of the exception class thrown
BadRequestOutcomes == {USER_NOT_FOUND, INSUFFICIENT_STOCK, NOT_PENDING_PAY,
                       NOT_PENDING_CANCEL, PAYMENT_UNAVAILABLE}
NotFoundOutcomes   == {ORDER_NOT_FOUND, PRODUCT_NOT_FOUND, USER_MISSING}
HttpStatus(out) ==
    IF out \in BadRequestOutcomes THEN 400
    ELSE IF out \in NotFoundOutcomes THEN 404
    ELSE IF out = TX_ERROR THEN 500
    ELSE 200

VARIABLES
    users,         \* committed user rows (set of ids)
    products,      \* committed product rows: id -> [stock, price]
    orders,        \* committed order rows: id -> [userId, status, total, items]
    nextOrderId,   \* the orders id sequence
    lock,          \* product row lock: id -> holder transaction (0: free)
    pc,            \* where each handler is
    oid,           \* the order a handler works on (0: none)
    lines,         \* lines / items a handler still has to process
    tx,            \* uncommitted writes of a handler's transaction
    productStock,  \* cancel: product.stock as read by productsService.findOne
    attempt,       \* processPayment: attempt counter
    newStatus,     \* updateStatus: the status argument
    result,        \* outcome of each handler's last finished call
    delay,         \* processPayment: the last backoff wait (ms, 0: none yet)
    waited,        \* processPayment: the backoff waits of the call so far (ms)
    nextProductId, \* the products id sequence
    cache,         \* the cache manager: key -> [payload, query] (query: the
                   \* raw query of the search that stored the entry, history)
    query,         \* searchProducts: the query of a handler's last search
    found,         \* searchProducts: the rows a handler's last search read
                   \* from the store or the cache (what the call returns)
    categories,    \* committed category rows: id -> parentId (0: a root)
    tree,          \* getCategoryTree: the value a handler's last call returned
    uid,           \* UsersService: the id argument of a handler's call
    nextUserId,    \* the users id sequence
    hist,          \* history: per order the successful pays (paid), the
                   \* successful cancels (cancelled) and the stock writes of
                   \* cancel (releases); per product the stock that results
                   \* from every committed reservation and every release
                   \* applied one after another (ledger); whether updateStatus
                   \* has written a status (overridden)
    calls          \* calls started so far

vars == <<users, products, orders, nextOrderId, lock, pc, oid, lines, tx,
          productStock, attempt, newStatus, result, delay, waited, nextProductId,
          cache, query, found, categories, tree, uid, nextUserId, hist, calls>>

dbVars      == <<users, products, orders>>
localVars   == <<oid, lines, tx, productStock, attempt, delay, waited, newStatus>>
otherVars   == <<categories, tree, uid, nextUserId>>
catalogVars == <<nextProductId, cache, query, found, otherVars>>
orderVars   == <<users, orders, nextOrderId, lock, oid, lines, tx, productStock,
                 attempt, delay, waited, newStatus>>

\* ----------------------------------------------------------------- helpers
NoTx == [userId |-> 0, items |-> <<>>, stock |-> <<>>, total |-> 0]

\* price of product row p at start (cents)
PriceOf(p) == 2 * p + 1

RECURSIVE SumQty(_, _)
\* total quantity of product x in an item list
SumQty(items, x) ==
    IF items = <<>> THEN 0
    ELSE (IF Head(items).productId = x THEN Head(items).quantity ELSE 0)
         + SumQty(Tail(items), x)

RECURSIVE SumTotal(_)
\* sum of quantity * stored price over an item list
SumTotal(items) ==
    IF items = <<>> THEN 0
    ELSE Head(items).quantity * Head(items).price + SumTotal(Tail(items))

Idle(p) == pc[p] = "idle"

\* a request arrives
StartCall == calls < MaxCalls /\ calls' = calls + 1
Quiescent == \A p \in Procs : Idle(p)

\* a handler returns (or throws) `out` and is idle again
Return(p, op, id, out) ==
    /\ pc' = [pc EXCEPT ![p] = "idle"]
    /\ result' = [result EXCEPT ![p] = [op |-> op, id |-> id, out |-> out]]
    /\ oid' = [oid EXCEPT ![p] = 0]
    /\ lines' = [lines EXCEPT ![p] = <<>>]
    /\ tx' = [tx EXCEPT ![p] = NoTx]
    /\ productStock' = [productStock EXCEPT ![p] = 0]
    /\ attempt' = [attempt EXCEPT ![p] = 0]
    /\ delay' = [delay EXCEPT ![p] = 0]
    /\ waited' = [waited EXCEPT ![p] = 0]
    /\ newStatus' = [newStatus EXCEPT ![p] = PENDING]

\* what getCategoryTree returns (id, children, parent: the `parent` property
\* of the node if it has one) or throws (error); a handler that has not
\* returned a tree holds the first
NoError == "none"
NoTree == [id |-> 0, children |-> {}, parent |-> {}, error |-> NoError]
Thrown(error) == [NoTree EXCEPT !.error = error]

\* the state after start-up: every product row has the given stock, the
\* category rows are the given ones
InitFrom(stock, rows) ==
    /\ users = UserIds
    /\ products = [x \in ProductIds |-> [stock |-> stock, price |-> PriceOf(x)]]
    /\ orders = <<>>
    /\ nextOrderId = 1
    /\ lock = [x \in ReqProductIds |-> 0]
    /\ pc = [p \in Procs |-> "idle"]
    /\ oid = [p \in Procs |-> 0]
    /\ lines = [p \in Procs |-> <<>>]
    /\ tx = [p \in Procs |-> NoTx]
    /\ productStock = [p \in Procs |-> 0]
    /\ attempt = [p \in Procs |-> 0]
    /\ newStatus = [p \in Procs |-> PENDING]
    /\ result = [p \in Procs |-> NoResult]
    /\ delay = [p \in Procs |-> 0]
    /\ waited = [p \in Procs |-> 0]
    /\ nextProductId = NumProducts + 1
    /\ cache = <<>>
    /\ query = [p \in Procs |-> <<>>]
    /\ found = [p \in Procs |-> {}]
    /\ categories = rows
    /\ tree = [p \in Procs |-> NoTree]
    /\ uid = [p \in Procs |-> 0]
    /\ nextUserId = NumUsers + 1
    /\ hist = [paid |-> [o \in OrderIds |-> 0],
               cancelled |-> [o \in OrderIds |-> 0],
               releases |-> [o \in OrderIds |-> 0],
               ledger |-> [x \in ReqProductIds |->
                              IF x \in ProductIds THEN stock ELSE 0],
               overridden |-> FALSE]
    /\ calls = 0

\* no category row yet
Init == InitFrom(InitStock, <<>>)

\* --------------------------------------------------- the unit of work (4.2)
\* dataSource.transaction: the writes of the callback stay in tx[p] until the
\* commit; a rejected callback rolls them back.

\* mutant: the product row is read without the pessimistic_write lock
MutRowLockAvailable(p, x) == TRUE

\* the row lock of SELECT ... FOR UPDATE (pessimistic_write) on product x is
\* free for transaction p: nobody else holds it
RowLockAvailable(p, x) == lock[x] \in {0, p}

\* an UPDATE outside a transaction waits for the row lock as well
RowLockFree(x) == lock[x] = 0

\* mutant: the transaction reads the committed stock, not its own write
MutTxStock(p, x) == products[x].stock

\* product.stock as transaction p reads it: its own uncommitted write, or the
\* last committed value (READ COMMITTED re-reads the row once the lock is won)
TxStock(p, x) ==
    IF x \in DOMAIN tx[p].stock THEN tx[p].stock[x] ELSE products[x].stock

\* mutant: the check only asks for some stock
MutSufficientStock(stock, quantity) == stock > 0

\* mutant: a line that asks for all that is left is refused
MutStrictlySufficientStock(stock, quantity) == stock > quantity

\* line 93: the stock check of one line
SufficientStock(stock, quantity) == ~(stock < quantity)

\* mutant: the quantity is left out of the line's amount
MutLineTotal(price, quantity) == price

\* line 111: Number(product.price) * itemDto.quantity (prices in cents)
LineTotal(price, quantity) == price * quantity

\* mutant: the header is saved through the repository, outside the transaction
MutOrdersAfterHeaderSave(id, userId) ==
    (id :> [userId |-> userId, status |-> PENDING, total |-> 0, items |-> <<>>])
        @@ orders

\* line 82: the order header is saved inside the transaction, so the committed
\* orders table, which is what every other request reads, is unchanged
OrdersAfterHeaderSave(id, userId) == orders

\* commit: every write of the transaction becomes visible at once
OrdersAfterCommit(p) ==
    (oid[p] :> [userId |-> tx[p].userId, status |-> PENDING,
                total |-> tx[p].total, items |-> tx[p].items]) @@ orders

ProductsAfterCommit(p) ==
    [x \in DOMAIN products |->
        IF x \in DOMAIN tx[p].stock
        THEN [products[x] EXCEPT !.stock = tx[p].stock[x]]
        ELSE products[x]]

\* mutant: the stock decrements of the failed request stay
MutProductsAfterRollback(p) == ProductsAfterCommit(p)

\* rollback: no write of the transaction reaches the committed tables
ProductsAfterRollback(p) == products

OrdersAfterRollback(p) == orders

ReleaseLocks(p) == [x \in DOMAIN lock |-> IF lock[x] = p THEN 0 ELSE lock[x]]

Rollback(p, out) ==
    /\ products' = ProductsAfterRollback(p)
    /\ orders' = OrdersAfterRollback(p)
    /\ lock' = ReleaseLocks(p)
    /\ Return(p, "create", oid[p], out)
    /\ UNCHANGED <<users, nextOrderId, hist>>

\* the transaction p waits for (0: p is not waiting for a row lock)
Holder(p) ==
    IF /\ pc[p] = "create_item"
       /\ lines[p] # <<>>
       /\ Head(lines[p]).productId \in DOMAIN products
       /\ ~RowLockAvailable(p, Head(lines[p]).productId)
    THEN lock[Head(lines[p]).productId]
    ELSE 0

RECURSIVE Chain(_, _)
Chain(q, n) == IF q = 0 \/ n = 0 THEN {} ELSE {q} \cup Chain(Holder(q), n - 1)

\* mutant: the store never finds a cycle of lock waits
MutDeadlocked(p) == FALSE

\* p is part of a cycle of lock waits
Deadlocked(p) == p \in Chain(Holder(p), NumProcs)

\* ------------------------------------------------- OrdersService.create
\* mutant: the user is looked up through the cache first, as
\* UsersService.findOne does
MutUserInStore(userId) ==
    userId \in users \/ <<"user:", ToString(userId)>> \in DOMAIN cache

\* line 73: transactionalEntityManager.findOne(User, { where: { id } }) reads
\* the users table inside the transaction
UserInStore(userId) == userId \in users

\* line 73-74: unknown user (the result names the user id of the request)
CreateUserNotFound(p) ==
    /\ Idle(p)
    /\ StartCall
    /\ \E userId \in ReqUserIds :
        /\ ~UserInStore(userId)
        /\ Return(p, "create", userId, USER_NOT_FOUND)
    /\ UNCHANGED <<dbVars, nextOrderId, lock, hist>>
    /\ UNCHANGED catalogVars

\* line 73-84: the user exists; the header is saved with status pending,
\* total 0; the request body lists the items of one of `lists`
CreateBeginWith(p, lists) ==
    /\ Idle(p)
    /\ StartCall
    /\ nextOrderId <= MaxOrders
    /\ \E userId \in ReqUserIds, items \in lists :
        /\ UserInStore(userId)
        /\ orders' = OrdersAfterHeaderSave(nextOrderId, userId)
        /\ oid' = [oid EXCEPT ![p] = nextOrderId]
        /\ tx' = [tx EXCEPT ![p] = [NoTx EXCEPT !.userId = userId]]
        /\ lines' = [lines EXCEPT ![p] = items]
    /\ nextOrderId' = nextOrderId + 1
    /\ pc' = [pc EXCEPT ![p] = "create_item"]
    /\ UNCHANGED <<users, products, lock, productStock, attempt, delay, waited, newStatus,
                   result, hist>>
    /\ UNCHANGED catalogVars

\* line 88-95: the product is unknown, or its stock is below the quantity
CreateItemRejected(p) ==
    /\ pc[p] = "create_item"
    /\ lines[p] # <<>>
    /\ LET d == Head(lines[p]) IN
        \/ d.productId \notin DOMAIN products
        \/ /\ d.productId \in DOMAIN products
           /\ RowLockAvailable(p, d.productId)
           /\ ~SufficientStock(TxStock(p, d.productId), d.quantity)
    /\ Rollback(p, INSUFFICIENT_STOCK)
    /\ UNCHANGED calls
    /\ UNCHANGED catalogVars

\* line 88-111: the row is locked, the item saved, the stock decremented
CreateItemReserved(p) ==
    /\ pc[p] = "create_item"
    /\ lines[p] # <<>>
    /\ LET d == Head(lines[p])
           x == d.productId
       IN
        /\ x \in DOMAIN products
        /\ RowLockAvailable(p, x)
        /\ SufficientStock(TxStock(p, x), d.quantity)
        /\ lock' = [lock EXCEPT ![x] = p]
        /\ tx' = [tx EXCEPT ![p] =
                    [userId |-> @.userId,
                     items |-> Append(@.items,
                                 [productId |-> x, quantity |-> d.quantity,
                                  price |-> products[x].price]),
                     stock |-> (x :> (TxStock(p, x) - d.quantity)) @@ @.stock,
                     total |-> @.total + LineTotal(products[x].price, d.quantity)]]
        /\ lines' = [lines EXCEPT ![p] = Tail(@)]
    /\ UNCHANGED <<dbVars, nextOrderId, pc, oid, productStock, attempt, delay, waited,
                   newStatus, result, hist>>
    /\ UNCHANGED calls
    /\ UNCHANGED catalogVars

\* line 115-117: the total is saved and the transaction commits
CreateCommit(p) ==
    /\ pc[p] = "create_item"
    /\ lines[p] = <<>>
    /\ orders' = OrdersAfterCommit(p)
    /\ products' = ProductsAfterCommit(p)
    /\ lock' = ReleaseLocks(p)
    /\ hist' = [hist EXCEPT !.ledger =
                    [x \in DOMAIN @ |-> @[x] - SumQty(tx[p].items, x)]]
    /\ Return(p, "create", oid[p], OK)
    /\ UNCHANGED <<users, nextOrderId>>
    /\ UNCHANGED calls
    /\ UNCHANGED catalogVars

\* the store breaks a cycle of row-lock waits by failing one of its
\* transactions; the callback rejects and the transaction rolls back
CreateDeadlock(p) ==
    /\ Deadlocked(p)
    /\ Rollback(p, TX_ERROR)
    /\ UNCHANGED calls
    /\ UNCHANGED catalogVars

CreateBegin(p) == CreateBeginWith(p, ItemLists)

CreateStep(p) ==
    \/ CreateUserNotFound(p)
    \/ CreateBegin(p)
    \/ CreateItemRejected(p)
    \/ CreateItemReserved(p)
    \/ CreateCommit(p)
    \/ CreateDeadlock(p)

\* ---------------------------------------------- repositories (no transaction)
\* mutant: the save is not awaited and its write is lost
MutOrdersAfterStatusSave(id, status) == orders

\* ordersRepository.save(order) after order.status = status: the status
\* column of the committed row is overwritten
OrdersAfterStatusSave(id, status) == [orders EXCEPT ![id].status = status]

\* mutant: the product is not saved
MutProductsAfterUpdateStock(x, quantity) == products

\* ProductsService.updateStock: product.stock = quantity; save(product)
ProductsAfterUpdateStock(x, quantity) == [products EXCEPT ![x].stock = quantity]

\* ------------------------------------------------- OrdersService.cancel
\* mutant: the guard only refuses orders that are already cancelled
MutCancelAllowed(status) == status # CANCELLED

\* line 172: only pending orders can be cancelled
CancelAllowed(status) == status = PENDING

\* mutant: the quantity alone is passed as the new stock
MutReleasedStock(stock, quantity) == quantity

\* line 178: product.stock + item.quantity
ReleasedStock(stock, quantity) == stock + quantity

\* line 170 (findOne): no such order
CancelNotFound(p) ==
    /\ Idle(p)
    /\ StartCall
    /\ \E id \in OrderIds :
        /\ id \notin DOMAIN orders
        /\ Return(p, "cancel", id, ORDER_NOT_FOUND)
    /\ UNCHANGED <<dbVars, nextOrderId, lock, hist>>
    /\ UNCHANGED catalogVars

\* line 172-174: the order as read is not pending
CancelRejected(p) ==
    /\ Idle(p)
    /\ StartCall
    /\ \E id \in DOMAIN orders :
        /\ ~CancelAllowed(orders[id].status)
        /\ Return(p, "cancel", id, NOT_PENDING_CANCEL)
    /\ UNCHANGED <<dbVars, nextOrderId, lock, hist>>
    /\ UNCHANGED catalogVars

\* line 170-176: the order as read is pending; its items are to be released
CancelBegin(p) ==
    /\ Idle(p)
    /\ StartCall
    /\ \E id \in DOMAIN orders :
        /\ CancelAllowed(orders[id].status)
        /\ oid' = [oid EXCEPT ![p] = id]
        /\ lines' = [lines EXCEPT ![p] = orders[id].items]
        /\ pc' = [pc EXCEPT ![p] =
                    IF orders[id].items = <<>> THEN "cancel_save" ELSE "cancel_find"]
    /\ UNCHANGED <<dbVars, nextOrderId, lock, tx, productStock, attempt, delay, waited,
                   newStatus, result, hist>>
    /\ UNCHANGED catalogVars

\* line 177: productsService.findOne(item.productId) reads the committed row
CancelFindProduct(p) ==
    /\ pc[p] = "cancel_find"
    /\ LET x == Head(lines[p]).productId IN
        IF x \in DOMAIN products
        THEN /\ productStock' = [productStock EXCEPT ![p] = products[x].stock]
             /\ pc' = [pc EXCEPT ![p] = "cancel_update"]
             /\ UNCHANGED <<oid, lines, tx, attempt, delay, waited, newStatus, result>>
        ELSE Return(p, "cancel", oid[p], PRODUCT_NOT_FOUND)
    /\ UNCHANGED <<dbVars, nextOrderId, lock, hist>>
    /\ UNCHANGED calls
    /\ UNCHANGED catalogVars

\* line 178: updateStock(product.id, product.stock + item.quantity) writes the
\* sum computed from the stock read at line 177
CancelUpdateStock(p) ==
    /\ pc[p] = "cancel_update"
    /\ LET x == Head(lines[p]).productId
           quantity == ReleasedStock(productStock[p], Head(lines[p]).quantity)
       IN
        /\ x \in DOMAIN products
        /\ RowLockFree(x)
        /\ quantity <= MaxStock
        /\ products' = ProductsAfterUpdateStock(x, quantity)
        /\ hist' = [hist EXCEPT !.releases[oid[p]] = @ + 1,
                                 !.ledger[x] = @ + Head(lines[p]).quantity]
    /\ lines' = [lines EXCEPT ![p] = Tail(@)]
    /\ productStock' = [productStock EXCEPT ![p] = 0]
    /\ pc' = [pc EXCEPT ![p] =
                IF Tail(lines[p]) = <<>> THEN "cancel_save" ELSE "cancel_find"]
    /\ UNCHANGED <<users, orders, nextOrderId, lock, oid, tx, attempt, delay, waited,
                   newStatus, result>>
    /\ UNCHANGED calls
    /\ UNCHANGED catalogVars

\* line 181-182: order.status = CANCELLED; save
CancelSave(p) ==
    /\ pc[p] = "cancel_save"
    /\ orders' = OrdersAfterStatusSave(oid[p], CANCELLED)
    /\ hist' = [hist EXCEPT !.cancelled[oid[p]] = @ + 1]
    /\ Return(p, "cancel", oid[p], OK)
    /\ UNCHANGED <<users, products, nextOrderId, lock>>
    /\ UNCHANGED calls
    /\ UNCHANGED catalogVars

CancelStep(p) ==
    \/ CancelNotFound(p)
    \/ CancelRejected(p)
    \/ CancelBegin(p)
    \/ CancelFindProduct(p)
    \/ CancelUpdateStock(p)
    \/ CancelSave(p)

\* ----------------------------------------- OrdersService.processPayment
\* mutant: the guard only refuses cancelled orders
MutPayAllowed(status) == status # CANCELLED

\* line 131: only pending orders are paid
PayAllowed(status) == status = PENDING

\* mutant: the last attempt is recognised one attempt late
MutLastAttempt(n) == n = MAX_ATTEMPTS + 1

\* line 149: this was the last attempt
LastAttempt(n) == n = MAX_ATTEMPTS

\* line 138: attempt++
NextAttempt(n) == n + 1

\* mutant: the delay grows linearly with the attempt
MutBackoffDelay(n) == BASE_DELAY * n

\* line 158: backoffDelay = BASE_DELAY * Math.pow(2, attempt - 1)
BackoffDelay(n) == BASE_DELAY * 2 ^ (n - 1)

\* line 159: jitter = Math.random() * 100, in whole milliseconds as setTimeout
\* takes it; the least and the greatest value
Jitters == {0, JITTER - 1}

\* line 128 (findOne): no such order
PayNotFound(p) ==
    /\ Idle(p)
    /\ StartCall
    /\ \E id \in OrderIds :
        /\ id \notin DOMAIN orders
        /\ Return(p, "pay", id, ORDER_NOT_FOUND)
    /\ UNCHANGED <<dbVars, nextOrderId, lock, hist>>
    /\ UNCHANGED catalogVars

\* line 131-133: guard clause
PayRejected(p) ==
    /\ Idle(p)
    /\ StartCall
    /\ \E id \in DOMAIN orders :
        /\ ~PayAllowed(orders[id].status)
        /\ Return(p, "pay", id, NOT_PENDING_PAY)
    /\ UNCHANGED <<dbVars, nextOrderId, lock, hist>>
    /\ UNCHANGED catalogVars

\* line 128-138: the order as read is pending; the retry loop starts
PayBegin(p) ==
    /\ Idle(p)
    /\ StartCall
    /\ \E id \in DOMAIN orders :
        /\ PayAllowed(orders[id].status)
        /\ oid' = [oid EXCEPT ![p] = id]
    /\ attempt' = [attempt EXCEPT ![p] = 1]
    /\ pc' = [pc EXCEPT ![p] = "pay_call"]
    /\ UNCHANGED <<dbVars, nextOrderId, lock, lines, tx, productStock, delay, waited,
                   newStatus, result, hist>>
    /\ UNCHANGED catalogVars

\* line 140-143: paymentService.processPayment resolves with success
PayCallSucceeds(p) ==
    /\ pc[p] = "pay_call"
    /\ pc' = [pc EXCEPT ![p] = "pay_save"]
    /\ UNCHANGED <<dbVars, nextOrderId, lock, localVars, result, hist>>
    /\ UNCHANGED calls
    /\ UNCHANGED catalogVars

\* line 147-162: the collaborator throws before the last attempt; the handler
\* starts to wait for backoffDelay + jitter
PayCallFails(p) ==
    /\ pc[p] = "pay_call"
    /\ ~LastAttempt(attempt[p])
    /\ \E jitter \in Jitters :
        /\ delay' = [delay EXCEPT ![p] = BackoffDelay(attempt[p]) + jitter]
        /\ waited' = [waited EXCEPT ![p] = @ + BackoffDelay(attempt[p]) + jitter]
    /\ pc' = [pc EXCEPT ![p] = "pay_wait"]
    /\ UNCHANGED <<dbVars, nextOrderId, lock, oid, lines, tx, productStock,
                   attempt, newStatus, result, hist>>
    /\ UNCHANGED calls
    /\ UNCHANGED catalogVars

\* line 162, 138: the wait is over; attempt++ and the next attempt starts
PayBackoff(p) ==
    /\ pc[p] = "pay_wait"
    /\ attempt' = [attempt EXCEPT ![p] = NextAttempt(@)]
    /\ pc' = [pc EXCEPT ![p] = "pay_call"]
    /\ UNCHANGED <<dbVars, nextOrderId, lock, oid, lines, tx, productStock,
                   delay, waited, newStatus, result, hist>>
    /\ UNCHANGED calls
    /\ UNCHANGED catalogVars

\* line 149-154: the collaborator throws on the last attempt
PayExhausted(p) ==
    /\ pc[p] = "pay_call"
    /\ LastAttempt(attempt[p])
    /\ Return(p, "pay", oid[p], PAYMENT_UNAVAILABLE)
    /\ UNCHANGED <<dbVars, nextOrderId, lock, hist>>
    /\ UNCHANGED calls
    /\ UNCHANGED catalogVars

\* line 143-145: order.status = CONFIRMED; save; return the result
PaySave(p) ==
    /\ pc[p] = "pay_save"
    /\ orders' = OrdersAfterStatusSave(oid[p], CONFIRMED)
    /\ hist' = [hist EXCEPT !.paid[oid[p]] = @ + 1]
    /\ Return(p, "pay", oid[p], OK)
    /\ UNCHANGED <<users, products, nextOrderId, lock>>
    /\ UNCHANGED calls
    /\ UNCHANGED catalogVars

PayStep(p) ==
    \/ PayNotFound(p)
    \/ PayRejected(p)
    \/ PayBegin(p)
    \/ PayCallSucceeds(p)
    \/ PayCallFails(p)
    \/ PayBackoff(p)
    \/ PayExhausted(p)
    \/ PaySave(p)

\* ------------------------------------------- OrdersService.updateStatus
\* line 122 (findOne): no such order
UpdateStatusNotFound(p) ==
    /\ Idle(p)
    /\ StartCall
    /\ \E id \in OrderIds :
        /\ id \notin DOMAIN orders
        /\ Return(p, "updateStatus", id, ORDER_NOT_FOUND)
    /\ UNCHANGED <<dbVars, nextOrderId, lock, hist>>
    /\ UNCHANGED catalogVars

\* line 122: the order is read; any status of the request body is accepted
UpdateStatusBegin(p) ==
    /\ Idle(p)
    /\ StartCall
    /\ \E id \in DOMAIN orders, status \in OrderStatus :
        /\ oid' = [oid EXCEPT ![p] = id]
        /\ newStatus' = [newStatus EXCEPT ![p] = status]
    /\ pc' = [pc EXCEPT ![p] = "status_save"]
    /\ UNCHANGED <<dbVars, nextOrderId, lock, lines, tx, productStock,
                   attempt, delay, waited, result, hist>>
    /\ UNCHANGED catalogVars

\* line 123-124: order.status = status; save
UpdateStatusSave(p) ==
    /\ pc[p] = "status_save"
    /\ orders' = OrdersAfterStatusSave(oid[p], newStatus[p])
    /\ hist' = [hist EXCEPT !.overridden = TRUE]
    /\ Return(p, "updateStatus", oid[p], OK)
    /\ UNCHANGED <<users, products, nextOrderId, lock>>
    /\ UNCHANGED calls
    /\ UNCHANGED catalogVars

UpdateStatusStep(p) ==
    \/ UpdateStatusNotFound(p)
    \/ UpdateStatusBegin(p)
    \/ UpdateStatusSave(p)

\* ------------------------------------------------------ ProductsService
\* Strings are sequences of characters.  Product names, descriptions and
\* search queries are written with these characters.
Chars == {"a", "b", "A", " "}

\* GET /products/search?q=: the raw query string (query || '')
Queries == UNION {[1..n -> Chars] : n \in 0..MaxQueryLen}

\* String.prototype.toLowerCase
ToLowerChar(c) == IF c = "A" THEN "a" ELSE c
ToLower(str) == [i \in 1..Len(str) |-> ToLowerChar(str[i])]

RECURSIVE TrimStart(_)
TrimStart(str) ==
    IF str # <<>> /\ Head(str) = " " THEN TrimStart(Tail(str)) ELSE str

RECURSIVE TrimEnd(_)
TrimEnd(str) ==
    IF str # <<>> /\ str[Len(str)] = " "
    THEN TrimEnd(SubSeq(str, 1, Len(str) - 1))
    ELSE str

\* String.prototype.trim
Trim(str) == TrimEnd(TrimStart(str))

\* the normalized query of a search
Normalize(q) == Trim(ToLower(q))

\* part_005 line 53: `search:${query.toLowerCase().trim()}`
CacheKey(q) == <<"search:">> \o Normalize(q)

\* products.service.ts line 55: the constant key 'product-search'
LegacyCacheKey(q) == <<"product-search">>

\* str contains sub
Includes(str, sub) ==
    \E i \in 0..(Len(str) - Len(sub)) : SubSeq(str, i + 1, i + Len(sub)) = sub

\* ILike(`%${query}%`): the pattern matches anywhere, whatever the case (the
\* characters of a query are none of the wildcards of LIKE)
ILike(str, q) == Includes(ToLower(str), ToLower(q))

\* Product.name and Product.description of the product rows; the row that
\* ProductsService.create adds gets the last name
NameOf(x) ==
    IF x = 1 THEN <<"A", "b">>
    ELSE IF x = 2 THEN <<"b", " ", "a">>
    ELSE <<"a", "a">>

DescriptionOf(x) == IF x = 2 THEN <<"a", "b">> ELSE <<>>

\* a product row as a search returns it
Row(x) == [id |-> x, stock |-> products[x].stock]

\* part_005 line 60-67: the rows whose name or description matches the raw
\* query (every row is available: nothing sets isAvailable), at most
\* SEARCH_TAKE of them
Matching(q) ==
    {Row(x) : x \in {y \in DOMAIN products :
                        ILike(NameOf(y), q) \/ ILike(DescriptionOf(y), q)}}

Take(rows) ==
    IF Cardinality(rows) <= SEARCH_TAKE THEN {rows}
    ELSE {part \in SUBSET rows : Cardinality(part) = SEARCH_TAKE}

FindResults(q) == Take(Matching(q))

\* products.service.ts line 61-65: every row is read and filtered in memory
\* by name.toLowerCase().includes(query.toLowerCase()), the same for the
\* description
LegacyFindResults(q) ==
    {{Row(x) : x \in {y \in DOMAIN products :
                         \/ Includes(ToLower(NameOf(y)), ToLower(q))
                         \/ Includes(ToLower(DescriptionOf(y)), ToLower(q))}}}

\* a products handler returns: the locals of the order handlers are not its
SearchReturn(p, op) ==
    /\ pc' = [pc EXCEPT ![p] = "idle"]
    /\ result' = [result EXCEPT ![p] = [op |-> op, id |-> 0, out |-> OK]]

\* part_005 line 36-39: create saves the new row; no cache key is deleted
ProductCreate(p) ==
    /\ Idle(p)
    /\ StartCall
    /\ nextProductId \in ReqProductIds
    /\ products' = (nextProductId :> [stock |-> InitStock,
                                      price |-> PriceOf(nextProductId)])
                        @@ products
    /\ nextProductId' = nextProductId + 1
    /\ hist' = [hist EXCEPT !.ledger[nextProductId] = InitStock]
    /\ result' = [result EXCEPT ![p] = [op |-> "createProduct",
                                         id |-> nextProductId, out |-> OK]]
    /\ UNCHANGED <<orderVars, pc, cache, query, found, otherVars>>

\* the request arrives; the key is computed from the query
SearchBegin(p, label) ==
    /\ Idle(p)
    /\ StartCall
    /\ \E q \in Queries : query' = [query EXCEPT ![p] = q]
    /\ found' = [found EXCEPT ![p] = {}]
    /\ pc' = [pc EXCEPT ![p] = label]
    /\ UNCHANGED <<orderVars, products, nextProductId, cache, result, hist,
                   otherVars>>

\* cacheManager.get(cacheKey) finds an entry: it is returned
SearchHit(p, label, key) ==
    /\ pc[p] = label
    /\ key \in DOMAIN cache
    /\ found' = [found EXCEPT ![p] = cache[key].payload]
    /\ SearchReturn(p, "search")
    /\ UNCHANGED <<orderVars, products, nextProductId, cache, query, hist,
                   otherVars>>
    /\ UNCHANGED calls

\* cacheManager.get(cacheKey) finds nothing
SearchMiss(p, label, key, next) ==
    /\ pc[p] = label
    /\ key \notin DOMAIN cache
    /\ pc' = [pc EXCEPT ![p] = next]
    /\ UNCHANGED <<orderVars, products, nextProductId, cache, query, found,
                   result, hist, otherVars>>
    /\ UNCHANGED calls

\* productsRepository.find reads the committed rows
SearchFind(p, label, results, next) ==
    /\ pc[p] = label
    /\ \E rows \in results : found' = [found EXCEPT ![p] = rows]
    /\ pc' = [pc EXCEPT ![p] = next]
    /\ UNCHANGED <<orderVars, products, nextProductId, cache, query, result,
                   hist, otherVars>>
    /\ UNCHANGED calls

\* cacheManager.set(cacheKey, results, 60000); return results
SearchSet(p, label, key) ==
    /\ pc[p] = label
    /\ cache' = (key :> [payload |-> found[p], query |-> query[p]]) @@ cache
    /\ SearchReturn(p, "search")
    /\ UNCHANGED <<orderVars, products, nextProductId, query, found, hist,
                   otherVars>>
    /\ UNCHANGED calls

\* part_005 line 52-72: searchProducts
SearchProductsBegin(p) == SearchBegin(p, "search_get")
SearchProductsHit(p)   == SearchHit(p, "search_get", CacheKey(query[p]))
SearchProductsMiss(p)  ==
    SearchMiss(p, "search_get", CacheKey(query[p]), "search_find")
SearchProductsFind(p)  ==
    SearchFind(p, "search_find", FindResults(query[p]), "search_set")
SearchProductsSet(p)   == SearchSet(p, "search_set", CacheKey(query[p]))

\* products.service.ts line 54-69: searchProducts
LegacySearchBegin(p) == SearchBegin(p, "legacy_get")
LegacySearchHit(p)   == SearchHit(p, "legacy_get", LegacyCacheKey(query[p]))
LegacySearchMiss(p)  ==
    SearchMiss(p, "legacy_get", LegacyCacheKey(query[p]), "legacy_find")
LegacySearchFind(p)  ==
    SearchFind(p, "legacy_find", LegacyFindResults(query[p]), "legacy_set")
LegacySearchSet(p)   == SearchSet(p, "legacy_set", LegacyCacheKey(query[p]))

\* the time to live of a cache entry (60000 ms) is over
CacheExpire ==
    /\ \E key \in DOMAIN cache :
        cache' = [k \in DOMAIN cache \ {key} |-> cache[k]]
    /\ UNCHANGED <<orderVars, products, nextProductId, pc, query, found,
                   result, hist, calls, otherVars>>

\* ------------------------------------------- ProductsService: categories
CategoryIds    == 1..MaxCategories
ReqCategoryIds == 1..(MaxCategories + 1)   \* the last id names no category row

\* the category tables: parentId names a row saved earlier, or nothing (0)
Forests == {rows \in [CategoryIds -> 0..MaxCategories] :
                \A c \in CategoryIds : rows[c] < c}

CATEGORY_NOT_FOUND == "NotFound: Category not found"
TYPE_ERROR         == "TypeError: Cannot read properties of undefined"
RANGE_ERROR        == "RangeError: Maximum call stack size exceeded"

\* the rows whose parentId is c
Kids(c) == {d \in DOMAIN categories : categories[d] = c}

RECURSIVE BuildChildTree(_, _)
\* part_005 line 106-113: buildChildTree; `withChildren` are the nodes of the
\* object graph whose children property is populated (undefined maps to [])
BuildChildTree(c, withChildren) ==
    [id |-> c,
     children |-> IF c \in withChildren
                  THEN {BuildChildTree(d, withChildren) : d \in Kids(c)}
                  ELSE {},
     parent |-> {},
     error |-> NoError]

\* the result of a builder whose nested calls returned or threw `parts`
Built(c, up, down) ==
    LET errors == {t.error : t \in up \cup down} \ {NoError} IN
    IF errors # {} THEN Thrown(CHOOSE e \in errors : TRUE)
    ELSE [id |-> c, children |-> down, parent |-> up, error |-> NoError]

RECURSIVE BuildCategoryTree(_, _, _, _)
\* products.service.ts line 101-117: buildCategoryTree; `withParent` and
\* `withChildren` are the nodes of the object graph whose parent and children
\* properties are populated; `depth` is what is left of the call stack
BuildCategoryTree(c, withParent, withChildren, depth) ==
    IF depth = 0 THEN Thrown(RANGE_ERROR)
    ELSE Built(c,
               IF categories[c] # 0
               THEN IF c \in withParent
                    THEN {BuildCategoryTree(categories[c], withParent,
                                            withChildren, depth - 1)}
                    ELSE {Thrown(TYPE_ERROR)}
               ELSE {},
               IF c \in withChildren
               THEN {BuildCategoryTree(d, withParent, withChildren, depth - 1) :
                        d \in Kids(c)}
               ELSE {})

\* the variables no category handler touches
treeFrame == <<orderVars, products, nextProductId, cache, query, found, hist,
               categories, uid, nextUserId, pc>>

\* getCategoryTree returns t or throws t.error
TreeReturn(p, op, id, t) ==
    /\ tree' = [tree EXCEPT ![p] = t]
    /\ result' = [result EXCEPT ![p] =
                    [op |-> op, id |-> id,
                     out |-> IF t.error = NoError THEN OK ELSE t.error]]

\* part_005 line 94-100 / products.service.ts line 76-82: no such row
TreeNotFound(p) ==
    /\ Idle(p)
    /\ StartCall
    /\ \E id \in ReqCategoryIds :
        /\ id \notin DOMAIN categories
        /\ TreeReturn(p, "getCategoryTree", id, Thrown(CATEGORY_NOT_FOUND))
    /\ UNCHANGED treeFrame

\* part_005 line 93-104: getCategoryTree; findOne with relations ['children']
\* populates the children of the starting row only
GetCategoryTree(p) ==
    /\ Idle(p)
    /\ StartCall
    /\ \E id \in DOMAIN categories :
        TreeReturn(p, "getCategoryTree", id, BuildChildTree(id, {id}))
    /\ UNCHANGED treeFrame

\* part_005 line 106-113: buildChildTree applied to a node of an object graph
\* in which every node has its children (and its parent) populated
BuildChildTreeCall(p) ==
    /\ Idle(p)
    /\ StartCall
    /\ \E id \in DOMAIN categories :
        TreeReturn(p, "buildTree", id, BuildChildTree(id, DOMAIN categories))
    /\ UNCHANGED treeFrame

\* products.service.ts line 93-96: getCategoryTree; findCategory populates
\* parent and children of the starting row only
LegacyGetCategoryTree(p) ==
    /\ Idle(p)
    /\ StartCall
    /\ \E id \in DOMAIN categories :
        TreeReturn(p, "getCategoryTree", id,
                   BuildCategoryTree(id, {id}, {id}, MaxDepth))
    /\ UNCHANGED treeFrame

\* products.service.ts line 101-117: buildCategoryTree applied to a node of an
\* object graph in which every node has parent and children populated
LegacyBuildTreeCall(p) ==
    /\ Idle(p)
    /\ StartCall
    /\ \E id \in DOMAIN categories :
        TreeReturn(p, "buildTree", id,
                   BuildCategoryTree(id, DOMAIN categories, DOMAIN categories,
                                     MaxDepth))
    /\ UNCHANGED treeFrame

\* --------------------------------------------------------- UsersService
\* line 19: 'users:all'
UsersAllKey == <<"users:all">>

\* line 31: `user:${id}` (ToString writes the number in decimal, as the
\* template literal does)
UserKey(id) == <<"user:", ToString(id)>>

\* mutant: the entry is stored under the key of the list
MutUserEntryKey(id) == UsersAllKey

\* line 42: the key cacheManager.set stores the user of findOne under
UserEntryKey(id) == UserKey(id)

\* the variables no UsersService handler touches
usersFrame == <<products, orders, nextOrderId, lock, localVars, nextProductId,
                query, categories, tree, hist>>

\* a users handler returns (or throws) `out`
UserReturn(p, op, id, out) ==
    /\ pc' = [pc EXCEPT ![p] = "idle"]
    /\ result' = [result EXCEPT ![p] = [op |-> op, id |-> id, out |-> out]]
    /\ uid' = [uid EXCEPT ![p] = 0]

\* cacheManager.set(key, value, 60000)
CacheAfterSet(key, value) == (key :> [payload |-> value, query |-> <<>>]) @@ cache

\* mutant: the key is not deleted
MutCacheAfterDel(key) == cache

\* cacheManager.del(key)
CacheAfterDel(key) == [k \in DOMAIN cache \ {key} |-> cache[k]]

\* line 18-20: findAll; the request arrives
FindAllBegin(p) ==
    /\ Idle(p)
    /\ StartCall
    /\ found' = [found EXCEPT ![p] = {}]
    /\ pc' = [pc EXCEPT ![p] = "all_get"]
    /\ UNCHANGED <<users, cache, uid, nextUserId, result, usersFrame>>

\* line 20-23: cacheManager.get('users:all') finds an entry: it is returned
FindAllHit(p) ==
    /\ pc[p] = "all_get"
    /\ UsersAllKey \in DOMAIN cache
    /\ found' = [found EXCEPT ![p] = cache[UsersAllKey].payload]
    /\ UserReturn(p, "findAll", 0, OK)
    /\ UNCHANGED <<users, cache, nextUserId, calls, usersFrame>>

\* line 20-21: cacheManager.get('users:all') finds nothing
FindAllMiss(p) ==
    /\ pc[p] = "all_get"
    /\ UsersAllKey \notin DOMAIN cache
    /\ pc' = [pc EXCEPT ![p] = "all_find"]
    /\ UNCHANGED <<users, cache, found, uid, nextUserId, result, calls, usersFrame>>

\* line 25: usersRepository.find() reads the committed rows
FindAllFind(p) ==
    /\ pc[p] = "all_find"
    /\ found' = [found EXCEPT ![p] = users]
    /\ pc' = [pc EXCEPT ![p] = "all_set"]
    /\ UNCHANGED <<users, cache, uid, nextUserId, result, calls, usersFrame>>

\* line 26-27: cacheManager.set('users:all', users, 60000); return users
FindAllSet(p) ==
    /\ pc[p] = "all_set"
    /\ cache' = CacheAfterSet(UsersAllKey, found[p])
    /\ UserReturn(p, "findAll", 0, OK)
    /\ UNCHANGED <<users, found, nextUserId, calls, usersFrame>>

\* findOne(id) is called: by the controller (label "one_get") or by remove
\* (label "remove_get")
UserBegin(p, label) ==
    /\ Idle(p)
    /\ StartCall
    /\ \E id \in ReqUserIds : uid' = [uid EXCEPT ![p] = id]
    /\ found' = [found EXCEPT ![p] = {}]
    /\ pc' = [pc EXCEPT ![p] = label]
    /\ UNCHANGED <<users, cache, nextUserId, result, usersFrame>>

\* line 32-35: cacheManager.get(`user:${id}`) finds an entry: findOne returns it
UserHit(p, label) ==
    /\ pc[p] = label
    /\ UserKey(uid[p]) \in DOMAIN cache
    /\ found' = [found EXCEPT ![p] = cache[UserKey(uid[p])].payload]

\* line 32-33: cacheManager.get(`user:${id}`) finds nothing
UserMiss(p, label, next) ==
    /\ pc[p] = label
    /\ UserKey(uid[p]) \notin DOMAIN cache
    /\ pc' = [pc EXCEPT ![p] = next]
    /\ UNCHANGED <<users, cache, found, uid, nextUserId, result, calls, usersFrame>>

\* line 37: usersRepository.findOne reads the committed row
UserFind(p, label, next) ==
    /\ pc[p] = label
    /\ uid[p] \in users
    /\ found' = [found EXCEPT ![p] = uid[p]]
    /\ pc' = [pc EXCEPT ![p] = next]
    /\ UNCHANGED <<users, cache, uid, nextUserId, result, calls, usersFrame>>

\* line 37-40: no such row; nothing is stored in the cache
UserNotFound(p, label, op) ==
    /\ pc[p] = label
    /\ uid[p] \notin users
    /\ UserReturn(p, op, uid[p], USER_MISSING)
    /\ UNCHANGED <<users, cache, found, nextUserId, calls, usersFrame>>

\* line 42: cacheManager.set(`user:${id}`, user, 60000)
UserSet(p, label) ==
    /\ pc[p] = label
    /\ cache' = CacheAfterSet(UserEntryKey(uid[p]), found[p])

\* line 30-44: findOne
FindOneBegin(p) == UserBegin(p, "one_get")

FindOneHit(p) ==
    /\ UserHit(p, "one_get")
    /\ UserReturn(p, "findOne", uid[p], OK)
    /\ UNCHANGED <<users, cache, nextUserId, calls, usersFrame>>

FindOneMiss(p) == UserMiss(p, "one_get", "one_find")

FindOneFind(p) == UserFind(p, "one_find", "one_set")

FindOneNotFound(p) == UserNotFound(p, "one_find", "findOne")

FindOneSet(p) ==
    /\ UserSet(p, "one_set")
    /\ UserReturn(p, "findOne", uid[p], OK)
    /\ UNCHANGED <<users, found, nextUserId, calls, usersFrame>>

\* line 46-48: create; the new row is saved (every request brings an email
\* no row has)
UserCreateSave(p) ==
    /\ Idle(p)
    /\ StartCall
    /\ nextUserId \in ReqUserIds
    /\ users' = users \cup {nextUserId}
    /\ uid' = [uid EXCEPT ![p] = nextUserId]
    /\ nextUserId' = nextUserId + 1
    /\ pc' = [pc EXCEPT ![p] = "create_del"]
    /\ UNCHANGED <<cache, found, result, usersFrame>>

\* line 49-50: cacheManager.del('users:all'); return saved
UserCreateDel(p) ==
    /\ pc[p] = "create_del"
    /\ cache' = CacheAfterDel(UsersAllKey)
    /\ UserReturn(p, "createUser", uid[p], OK)
    /\ UNCHANGED <<users, found, nextUserId, calls, usersFrame>>

\* line 53-54: remove calls findOne(id), which reads through the cache
RemoveBegin(p) == UserBegin(p, "remove_get")

RemoveHit(p) ==
    /\ UserHit(p, "remove_get")
    /\ pc' = [pc EXCEPT ![p] = "remove_delete"]
    /\ UNCHANGED <<users, cache, uid, nextUserId, result, calls, usersFrame>>

RemoveMiss(p) == UserMiss(p, "remove_get", "remove_find")

RemoveFind(p) == UserFind(p, "remove_find", "remove_set")

RemoveNotFound(p) == UserNotFound(p, "remove_find", "removeUser")

RemoveSet(p) ==
    /\ UserSet(p, "remove_set")
    /\ pc' = [pc EXCEPT ![p] = "remove_delete"]
    /\ UNCHANGED <<users, found, uid, nextUserId, result, calls, usersFrame>>

\* the orders of a user refer to its row (Order.user, user.entity.ts line 21)
Referenced(id) ==
    \/ \E o \in DOMAIN orders : orders[o].userId = id
    \/ \E q \in Procs : tx[q].userId = id

\* line 55: usersRepository.remove(user) deletes the row with the id of the
\* user that findOne returned; a row that orders refer to is not deleted
RemoveDelete(p) ==
    /\ pc[p] = "remove_delete"
    /\ IF Referenced(found[p])
       THEN /\ UserReturn(p, "removeUser", uid[p], TX_ERROR)
            /\ UNCHANGED users
       ELSE /\ users' = users \ {found[p]}
            /\ pc' = [pc EXCEPT ![p] = "remove_del_all"]
            /\ UNCHANGED <<uid, result>>
    /\ UNCHANGED <<cache, found, nextUserId, calls, usersFrame>>

\* line 56: cacheManager.del('users:all')
RemoveDelAll(p) ==
    /\ pc[p] = "remove_del_all"
    /\ cache' = CacheAfterDel(UsersAllKey)
    /\ pc' = [pc EXCEPT ![p] = "remove_del_one"]
    /\ UNCHANGED <<users, found, uid, nextUserId, result, calls, usersFrame>>

\* line 57: cacheManager.del(`user:${id}`)
RemoveDelOne(p) ==
    /\ pc[p] = "remove_del_one"
    /\ cache' = CacheAfterDel(UserKey(uid[p]))
    /\ UserReturn(p, "removeUser", uid[p], OK)
    /\ UNCHANGED <<users, found, nextUserId, calls, usersFrame>>

\* every step of a UsersService handler
UsersStep(p) ==
    \/ FindAllBegin(p)
    \/ FindAllHit(p)
    \/ FindAllMiss(p)
    \/ FindAllFind(p)
    \/ FindAllSet(p)
    \/ FindOneBegin(p)
    \/ FindOneHit(p)
    \/ FindOneMiss(p)
    \/ FindOneFind(p)
    \/ FindOneNotFound(p)
    \/ FindOneSet(p)
    \/ UserCreateSave(p)
    \/ UserCreateDel(p)
    \/ RemoveBegin(p)
    \/ RemoveHit(p)
    \/ RemoveMiss(p)
    \/ RemoveFind(p)
    \/ RemoveNotFound(p)
    \/ RemoveSet(p)
    \/ RemoveDelete(p)
    \/ RemoveDelAll(p)
    \/ RemoveDelOne(p)

\* ------------------------------------------------------- specifications
\* every handler, any interleaving
Next ==
    \E p \in Procs :
        CreateStep(p) \/ CancelStep(p) \/ PayStep(p) \/ UpdateStatusStep(p)

Spec == Init /\ [][Next]_vars

\* create, cancel and processPayment, any interleaving (no status override)
NextOrders == \E p \in Procs : CreateStep(p) \/ CancelStep(p) \/ PayStep(p)

SpecOrders == Init /\ [][NextOrders]_vars

\* every handler, one call at a time: p moves only while every other handler
\* is idle (no transaction waits for a lock then, so none is broken)
Alone(p) == \A q \in Procs \ {p} : Idle(q)

NextSerial ==
    \E p \in Procs :
        \/ Alone(p) /\ CreateUserNotFound(p)
        \/ Alone(p) /\ CreateBegin(p)
        \/ Alone(p) /\ CreateItemRejected(p)
        \/ Alone(p) /\ CreateItemReserved(p)
        \/ Alone(p) /\ CreateCommit(p)
        \/ Alone(p) /\ CancelNotFound(p)
        \/ Alone(p) /\ CancelRejected(p)
        \/ Alone(p) /\ CancelBegin(p)
        \/ Alone(p) /\ CancelFindProduct(p)
        \/ Alone(p) /\ CancelUpdateStock(p)
        \/ Alone(p) /\ CancelSave(p)
        \/ Alone(p) /\ PayNotFound(p)
        \/ Alone(p) /\ PayRejected(p)
        \/ Alone(p) /\ PayBegin(p)
        \/ Alone(p) /\ PayCallSucceeds(p)
        \/ Alone(p) /\ PayCallFails(p)
        \/ Alone(p) /\ PayBackoff(p)
        \/ Alone(p) /\ PayExhausted(p)
        \/ Alone(p) /\ PaySave(p)
        \/ Alone(p) /\ UpdateStatusNotFound(p)
        \/ Alone(p) /\ UpdateStatusBegin(p)
        \/ Alone(p) /\ UpdateStatusSave(p)

SpecSerial == Init /\ [][NextSerial]_vars

\* concurrent createOrder calls only
NextCreate == \E p \in Procs : CreateStep(p)

SpecCreate == Init /\ [][NextCreate]_vars

\* the steps of a createOrder call that has started: the store runs a
\* statement once the row lock it needs is free, the event loop runs the
\* continuation, and the store's deadlock detector fails one transaction of
\* a cycle of lock waits
CreateRun(p) ==
    \/ CreateItemRejected(p)
    \/ CreateItemReserved(p)
    \/ CreateCommit(p)
    \/ CreateDeadlock(p)

\* concurrent createOrder calls whose started calls keep running
SpecCreateLive ==
    Init /\ [][NextCreate]_vars /\ \A p \in Procs : WF_vars(CreateRun(p))

\* mutant: the backoff timer of line 162 need not fire
MutPayRun(p) ==
    \/ PayCallSucceeds(p)
    \/ PayCallFails(p)
    \/ PayExhausted(p)
    \/ PaySave(p)

\* createOrder and processPayment, any interleaving.  A processPayment call
\* that has started keeps running: the promise of the collaborator settles
\* (a 100 ms timer, then it returns or throws), the backoff timer fires and
\* the save of the status completes, and the event loop runs the continuation
\* of every settled promise.  Nothing makes the collaborator succeed.
PayRun(p) ==
    \/ PayCallSucceeds(p)
    \/ PayCallFails(p)
    \/ PayBackoff(p)
    \/ PayExhausted(p)
    \/ PaySave(p)

NextPay == \E p \in Procs : CreateStep(p) \/ PayStep(p)

\* createOrder, cancel, ProductsService.create and searchProducts (part_005),
\* one call at a time; cache entries expire at any time
NextCatalog ==
    \/ \E p \in Procs :
        \/ Alone(p) /\ CreateUserNotFound(p)
        \/ Alone(p) /\ CreateBegin(p)
        \/ Alone(p) /\ CreateItemRejected(p)
        \/ Alone(p) /\ CreateItemReserved(p)
        \/ Alone(p) /\ CreateCommit(p)
        \/ Alone(p) /\ CancelNotFound(p)
        \/ Alone(p) /\ CancelRejected(p)
        \/ Alone(p) /\ CancelBegin(p)
        \/ Alone(p) /\ CancelFindProduct(p)
        \/ Alone(p) /\ CancelUpdateStock(p)
        \/ Alone(p) /\ CancelSave(p)
        \/ Alone(p) /\ ProductCreate(p)
        \/ Alone(p) /\ SearchProductsBegin(p)
        \/ Alone(p) /\ SearchProductsHit(p)
        \/ Alone(p) /\ SearchProductsMiss(p)
        \/ Alone(p) /\ SearchProductsFind(p)
        \/ Alone(p) /\ SearchProductsSet(p)
    \/ CacheExpire

SpecCatalog == Init /\ [][NextCatalog]_vars

\* ProductsService.create and searchProducts as products.service.ts has
\* them, any interleaving; cache entries expire at any time
NextLegacySearch ==
    \/ \E p \in Procs :
        \/ ProductCreate(p)
        \/ LegacySearchBegin(p)
        \/ LegacySearchHit(p)
        \/ LegacySearchMiss(p)
        \/ LegacySearchFind(p)
        \/ LegacySearchSet(p)
    \/ CacheExpire

SpecLegacySearch == Init /\ [][NextLegacySearch]_vars

SpecPay == Init /\ [][NextPay]_vars /\ \A p \in Procs : WF_vars(PayRun(p))

\* the UsersService handlers, any interleaving; cache entries expire at any
\* time
NextUsers == (\E p \in Procs : UsersStep(p)) \/ CacheExpire

SpecUsers == Init /\ [][NextUsers]_vars

\* the UsersService handlers, one call at a time; cache entries expire at any
\* time
NextUsersSerial ==
    \/ \E p \in Procs :
        \/ Alone(p) /\ FindAllBegin(p)
        \/ Alone(p) /\ FindAllHit(p)
        \/ Alone(p) /\ FindAllMiss(p)
        \/ Alone(p) /\ FindAllFind(p)
        \/ Alone(p) /\ FindAllSet(p)
        \/ Alone(p) /\ FindOneBegin(p)
        \/ Alone(p) /\ FindOneHit(p)
        \/ Alone(p) /\ FindOneMiss(p)
        \/ Alone(p) /\ FindOneFind(p)
        \/ Alone(p) /\ FindOneNotFound(p)
        \/ Alone(p) /\ FindOneSet(p)
        \/ Alone(p) /\ UserCreateSave(p)
        \/ Alone(p) /\ UserCreateDel(p)
        \/ Alone(p) /\ RemoveBegin(p)
        \/ Alone(p) /\ RemoveHit(p)
        \/ Alone(p) /\ RemoveMiss(p)
        \/ Alone(p) /\ RemoveFind(p)
        \/ Alone(p) /\ RemoveNotFound(p)
        \/ Alone(p) /\ RemoveSet(p)
        \/ Alone(p) /\ RemoveDelete(p)
        \/ Alone(p) /\ RemoveDelAll(p)
        \/ Alone(p) /\ RemoveDelOne(p)
    \/ CacheExpire

SpecUsersSerial == Init /\ [][NextUsersSerial]_vars

\* the end-to-end scenario: every product starts with stock WidgetStock, every
\* order asks for WidgetQty units of one product; createOrder and cancel,
\* one call at a time
InitScenario == InitFrom(WidgetStock, <<>>)

WidgetLists ==
    {<<[productId |-> x, quantity |-> WidgetQty]>> : x \in ProductIds}

ScenarioCreateBegin(p) == CreateBeginWith(p, WidgetLists)

NextScenario ==
    \E p \in Procs :
        \/ Alone(p) /\ ScenarioCreateBegin(p)
        \/ Alone(p) /\ CreateItemRejected(p)
        \/ Alone(p) /\ CreateItemReserved(p)
        \/ Alone(p) /\ CreateCommit(p)
        \/ Alone(p) /\ CancelNotFound(p)
        \/ Alone(p) /\ CancelRejected(p)
        \/ Alone(p) /\ CancelBegin(p)
        \/ Alone(p) /\ CancelFindProduct(p)
        \/ Alone(p) /\ CancelUpdateStock(p)
        \/ Alone(p) /\ CancelSave(p)

SpecScenario == InitScenario /\ [][NextScenario]_vars

\* createOrder and the UsersService handlers, any interleaving; cache entries
\* expire at any time
NextOrderUsers == (\E p \in Procs : CreateStep(p) \/ UsersStep(p)) \/ CacheExpire

SpecOrderUsers == Init /\ [][NextOrderUsers]_vars

\* the category table is any forest of MaxCategories rows
InitTree == \E rows \in Forests : InitFrom(InitStock, rows)

\* getCategoryTree and its builder as part_005 has them
NextTree ==
    \E p \in Procs :
        TreeNotFound(p) \/ GetCategoryTree(p) \/ BuildChildTreeCall(p)

SpecTree == InitTree /\ [][NextTree]_vars

\* getCategoryTree and its builder as products.service.ts has them
NextLegacyTree ==
    \E p \in Procs :
        TreeNotFound(p) \/ LegacyGetCategoryTree(p) \/ LegacyBuildTreeCall(p)

SpecLegacyTree == InitTree /\ [][NextLegacyTree]_vars

\* the readers that go through the cache (UsersService.findAll and findOne,
\* ProductsService.searchProducts of part_005) and the mutators of their
\* tables, any interleaving; cache entries expire at any time
NextReads ==
    \/ \E p \in Procs :
        \/ UsersStep(p)
        \/ ProductCreate(p)
        \/ SearchProductsBegin(p)
        \/ SearchProductsHit(p)
        \/ SearchProductsMiss(p)
        \/ SearchProductsFind(p)
        \/ SearchProductsSet(p)
    \/ CacheExpire

SpecReads == Init /\ [][NextReads]_vars

\* ================================================================ properties
RECURSIVE SumOrders(_, _)
\* total quantity of product x over the orders of the set S
SumOrders(S, x) ==
    IF S = {} THEN 0
    ELSE LET o == CHOOSE o \in S : TRUE
         IN SumQty(orders[o].items, x) + SumOrders(S \ {o}, x)

\* quantity of product x reserved by the committed orders
ReservedSum(x) == SumOrders(DOMAIN orders, x)

\* C1: in every reachable state, under any interleaving of createOrder and
\* cancel (and of every other handler), the stock of every product, committed
\* or written inside a transaction, is >= 0.
C1_StockNonNegative ==
    /\ \A x \in DOMAIN products : products[x].stock >= 0
    /\ \A p \in Procs : \A x \in DOMAIN tx[p].stock : tx[p].stock[x] >= 0

\* C1 witness: a product is sold out while a cancel that is about to write its
\* stock and a createOrder that asks for it run at the same time.
C1_Witness ==
    \E x \in DOMAIN products, p \in Procs, q \in Procs :
        /\ products[x].stock = 0
        /\ pc[p] = "cancel_update" /\ Head(lines[p]).productId = x
        /\ pc[q] = "create_item" /\ lines[q] # <<>>
        /\ Head(lines[q]).productId = x

\* C2: with createOrder calls only, for every product the quantities of the
\* committed orders never sum to more than the initial stock, and once every
\* call has finished the stock is the initial stock minus that sum.
C2_NoOversell ==
    \A x \in DOMAIN products :
        /\ ReservedSum(x) <= InitStock
        /\ Quiescent => products[x].stock = InitStock - ReservedSum(x)

\* C2 witness: a createOrder waits for the row lock of a product whose
\* committed stock would pass its check while the lock holder's uncommitted
\* decrement leaves too little for it.
C2_Witness ==
    \E x \in DOMAIN products, p \in Procs, q \in Procs :
        /\ lock[x] = p /\ Holder(q) = p
        /\ Head(lines[q]).productId = x
        /\ SufficientStock(products[x].stock, Head(lines[q]).quantity)
        /\ ~SufficientStock(TxStock(p, x), Head(lines[q]).quantity)

\* C3: every step of a createOrder call other than its commit, and in
\* particular the step at which a line fails (unknown product, insufficient
\* stock, a store error), leaves the committed orders (with their items) and
\* the committed stock of every product as they were; after the failure the
\* request's order id names no order row and the call holds no row lock.
C3_CreateFails(p) ==
    pc[p] = "create_item" /\ pc'[p] = "idle" /\ result'[p].out # OK

C3_CreateProgress(p) ==
    pc'[p] = "create_item" /\ (pc[p] = "idle" \/ lines'[p] # lines[p])

C3_AllOrNothing ==
    [][\A p \in Procs :
        /\ (C3_CreateFails(p) \/ C3_CreateProgress(p))
              => (orders' = orders /\ products' = products)
        /\ C3_CreateFails(p)
              => (/\ oid[p] \notin DOMAIN orders'
                  /\ \A x \in DOMAIN lock : lock'[x] # p)]_vars

\* C3 witness: a two-line request has decremented the stock of its first
\* product inside its transaction and its last line is about to be rejected.
C3_Witness ==
    \E p \in Procs :
        /\ pc[p] = "create_item"
        /\ Len(tx[p].items) >= 1 /\ Len(lines[p]) = 1
        /\ \E x \in DOMAIN tx[p].stock : tx[p].stock[x] < products[x].stock
        /\ LET d == Head(lines[p]) IN
            \/ d.productId \notin DOMAIN products
            \/ /\ d.productId \in DOMAIN products
               /\ d.productId # tx[p].items[1].productId
               /\ RowLockAvailable(p, d.productId)
               /\ ~SufficientStock(TxStock(p, d.productId), d.quantity)

\* C4: with createOrder calls only, what any other request can read is at all
\* times the effect of the committed calls alone: every visible order has its
\* items and its final total and belongs to no call still running, and the
\* visible stock of every product is the initial stock minus the quantities
\* of the visible orders.
C4_NoIntermediateState ==
    /\ \A o \in DOMAIN orders :
        /\ orders[o].items # <<>>
        /\ orders[o].total = SumTotal(orders[o].items)
        /\ \A p \in Procs : ~(pc[p] = "create_item" /\ oid[p] = o)
    /\ \A x \in DOMAIN products :
        products[x].stock = InitStock - ReservedSum(x)

\* C4 witness: a createOrder has saved its header and an item and decremented
\* a stock inside its transaction, and has not committed.
C4_Witness ==
    \E p \in Procs :
        /\ pc[p] = "create_item"
        /\ tx[p].items # <<>> /\ lines[p] # <<>>
        /\ oid[p] \notin DOMAIN orders
        /\ \E x \in DOMAIN tx[p].stock : tx[p].stock[x] < products[x].stock

\* C5: for any interleaving of processPayment and cancel on the same order it
\* never happens both that a pay returned a transaction id and that cancel
\* wrote the order's stock back, and once every call has finished an order
\* whose stock was released by cancel is not confirmed.
C5_PayCancelExclusive ==
    \A o \in DOMAIN orders :
        /\ ~(hist.paid[o] >= 1 /\ hist.releases[o] >= 1)
        /\ (Quiescent /\ hist.releases[o] >= 1) => orders[o].status # CONFIRMED

\* C6: once every call has finished, the stock of every product is what the
\* committed reservations and the releases give when applied one after another.
C6_Linearized ==
    Quiescent => \A x \in DOMAIN products : products[x].stock = hist.ledger[x]

\* C7: the quantities of an order are released exactly once: at most one
\* cancel of an order succeeds, and cancel writes the stock back at most once
\* per line of the order.
C7_ReleasedOnce ==
    \A o \in DOMAIN orders :
        /\ hist.cancelled[o] <= 1
        /\ hist.releases[o] <= Len(orders[o].items)

\* a step in which handler p calls paymentService.processPayment
C8_Charges(p) ==
    pc[p] = "pay_call" /\ (pc'[p] # "pay_call" \/ attempt'[p] # attempt[p])

\* C8: the payment collaborator is only called while the order's persisted
\* status is pending, and a call is not charged successfully when another pay
\* of the same order has been (returned, or charged and about to save).
C8_NeverChargedUnlessPending ==
    [][\A p \in Procs :
        C8_Charges(p) =>
            /\ orders[oid[p]].status = PENDING
            /\ pc'[p] = "pay_save" =>
                /\ hist.paid[oid[p]] = 0
                /\ \A q \in Procs \ {p} :
                     ~(pc[q] = "pay_save" /\ oid[q] = oid[p])]_vars

\* a step changes the status of order o
C9_Changes(o) ==
    o \in DOMAIN orders /\ o \in DOMAIN orders'
        /\ orders'[o].status # orders[o].status

C9_Allowed(o) ==
    orders[o].status = PENDING /\ orders'[o].status \in {CONFIRMED, CANCELLED}

\* C9 as stated: over any sequence of calls (processPayment, cancel,
\* updateStatus) the status only changes pending -> confirmed or
\* pending -> cancelled.
C9_OnlyForwardTransitions ==
    [][\A o \in OrderIds : C9_Changes(o) => C9_Allowed(o)]_vars

\* C9 amended: over any sequence of calls the status changes made by
\* processPayment and cancel are pending -> confirmed and pending -> cancelled;
\* every other change is the write of an updateStatus call.
C9_ForwardExceptOverride ==
    [][\A o \in OrderIds :
        C9_Changes(o) =>
            \/ C9_Allowed(o)
            \/ \E p \in Procs :
                 pc[p] = "status_save" /\ oid[p] = o /\ pc'[p] = "idle"]_vars

\* C9 witness: an order was overridden by updateStatus and then confirmed by a
\* pay.
C9_Witness ==
    \E o \in DOMAIN orders, p \in Procs, q \in Procs :
        /\ result[p] = [op |-> "updateStatus", id |-> o, out |-> OK]
        /\ result[q] = [op |-> "pay", id |-> o, out |-> OK]
        /\ orders[o].status = CONFIRMED

\* handler p starts a processPayment call on order o in this step
C10_PayStarts(p, o) ==
    /\ Idle(p) /\ calls' # calls
    /\ \/ pc'[p] = "pay_call" /\ oid'[p] = o
       \/ /\ pc'[p] = "idle" /\ result'[p] # result[p]
          /\ result'[p].op = "pay" /\ result'[p].id = o

\* C10: a processPayment call that finds the order confirmed or cancelled
\* ends at once with the InvalidState error, before the payment collaborator
\* is called, and writes nothing to the orders.
C10_PayRejectedUnlessPending ==
    [][\A p \in Procs : \A o \in DOMAIN orders :
        (C10_PayStarts(p, o) /\ orders[o].status \in {CONFIRMED, CANCELLED})
            => /\ pc'[p] = "idle"
               /\ result'[p] = [op |-> "pay", id |-> o, out |-> NOT_PENDING_PAY]
               /\ orders' = orders
               /\ hist' = hist]_vars

\* C10 witness: a pay of an order that an earlier pay confirmed was rejected,
\* and the order was charged once.
C10_Witness ==
    \E o \in DOMAIN orders, p \in Procs :
        /\ result[p] = [op |-> "pay", id |-> o, out |-> NOT_PENDING_PAY]
        /\ orders[o].status = CONFIRMED
        /\ hist.paid[o] = 1

\* handler p gets the outcome of a call of paymentService.processPayment; it
\* is call number attempt[p] of this processPayment
C11_Invokes(p) == pc[p] = "pay_call" /\ pc'[p] # "pay_call"

\* C11: one processPayment call calls the payment collaborator at most
\* MAX_ATTEMPTS times; while its attempts fail it writes no order, and when
\* the last one has failed it ends with the payment-unavailable error and
\* the order is still pending.
C11_BoundedAttempts ==
    [][\A p \in Procs :
        /\ C11_Invokes(p) =>
            /\ attempt[p] \in 1..MAX_ATTEMPTS
            /\ pc'[p] = "idle" =>
                /\ attempt[p] = MAX_ATTEMPTS
                /\ result'[p] = [op |-> "pay", id |-> oid[p],
                                 out |-> PAYMENT_UNAVAILABLE]
                /\ orders[oid[p]].status = PENDING
        /\ (pc[p] \in {"pay_call", "pay_wait"} /\ pc'[p] # "pay_save")
              => orders' = orders]_vars

\* C11 witness: a processPayment call has failed for good and its order is
\* pending.
C11_Witness ==
    \E p \in Procs, o \in DOMAIN orders :
        /\ result[p] = [op |-> "pay", id |-> o, out |-> PAYMENT_UNAVAILABLE]
        /\ orders[o].status = PENDING

\* C12: every processPayment call that has entered its retry loop returns,
\* whatever the collaborator does (a call that finds no order or an order
\* that is not pending returns in its first step).
C12_PayReturns ==
    \A p \in Procs :
        (pc[p] \in {"pay_call", "pay_wait", "pay_save"}) ~> Idle(p)

\* C12 witness: the collaborator has failed four times in a row and the
\* handler waits before its last attempt.
C12_Witness ==
    \E p \in Procs : pc[p] = "pay_wait" /\ attempt[p] = MAX_ATTEMPTS - 1

\* C13: the wait after failed attempt k (k = 1..MAX_ATTEMPTS-1) is at least
\* BASE_DELAY * 2^(k-1) and less than BASE_DELAY * 2^k, its jitter is in
\* [0, JITTER) with JITTER at most BASE_DELAY, and it is longer than the wait
\* before it.
C13_BackoffWithinTier ==
    [][\A p \in Procs :
        (pc[p] = "pay_call" /\ pc'[p] = "pay_wait") =>
            LET k == attempt[p] IN
                /\ k \in 1..(MAX_ATTEMPTS - 1)
                /\ delay'[p] >= BASE_DELAY * 2 ^ (k - 1)
                /\ delay'[p] < BASE_DELAY * 2 ^ k
                /\ delay'[p] - BASE_DELAY * 2 ^ (k - 1) < JITTER
                /\ JITTER <= BASE_DELAY
                /\ delay'[p] > delay[p]]_vars

\* C13 witness: the longest wait of a call: after the fourth failed attempt,
\* with the greatest jitter.
C13_Witness ==
    \E p \in Procs :
        /\ pc[p] = "pay_wait"
        /\ attempt[p] = MAX_ATTEMPTS - 1
        /\ delay[p] = BASE_DELAY * 2 ^ (MAX_ATTEMPTS - 2) + JITTER - 1

\* C14: in the step in which a processPayment call returns the collaborator's
\* result, the call has saved the order and the persisted status is
\* confirmed.
C14_ConfirmedBeforeReturn ==
    [][\A p \in Procs :
        (/\ pc[p] # "idle" /\ pc'[p] = "idle"
         /\ result'[p].op = "pay" /\ result'[p].out = OK)
            => /\ pc[p] = "pay_save"
               /\ orders'[result'[p].id].status = CONFIRMED]_vars

\* C14 witness: a processPayment call has returned its result, its order is
\* confirmed and was charged once, and no call is running.
C14_Witness ==
    \E p \in Procs, o \in DOMAIN orders :
        /\ result[p] = [op |-> "pay", id |-> o, out |-> OK]
        /\ orders[o].status = CONFIRMED
        /\ hist.paid[o] = 1
        /\ \A q \in Procs : Idle(q)

RECURSIVE SumCancelled(_, _)
\* total quantity of product x over the orders of the set S, each counted once
\* for every cancel of it that succeeded
SumCancelled(S, x) ==
    IF S = {} THEN 0
    ELSE LET o == CHOOSE o \in S : TRUE
         IN hist.cancelled[o] * SumQty(orders[o].items, x)
                + SumCancelled(S \ {o}, x)

\* handler p starts a cancel call on order o in this step
C15_CancelStarts(p, o) ==
    /\ Idle(p) /\ calls' # calls
    /\ \/ pc'[p] \in {"cancel_find", "cancel_save"} /\ oid'[p] = o
       \/ /\ pc'[p] = "idle" /\ result'[p] # result[p]
          /\ result'[p].op = "cancel" /\ result'[p].id = o

\* C15: with calls run one after another, cancel of a pending order writes
\* to each line's product its stock plus the line's quantity and to no other
\* product, and when it returns the order is cancelled and every product's
\* stock is the initial stock less the quantities of the orders, plus the
\* quantities of each order once per successful cancel; a cancel of a
\* cancelled order ends at once with the only-pending error and changes no
\* stock and no order.
C15_CancelRestocksOnce ==
    [][\A p \in Procs :
        /\ (pc[p] = "cancel_update" /\ pc'[p] # "cancel_update") =>
            LET x == Head(lines[p]).productId IN
                /\ products'[x].stock
                       = products[x].stock + Head(lines[p]).quantity
                /\ \A y \in DOMAIN products \ {x} : products'[y] = products[y]
        /\ (pc[p] = "cancel_save" /\ pc'[p] = "idle") =>
            /\ orders[oid[p]].status = PENDING
            /\ orders'[oid[p]].status = CANCELLED
            /\ result'[p] = [op |-> "cancel", id |-> oid[p], out |-> OK]
            /\ \A x \in DOMAIN products :
                  products'[x].stock
                     = InitStock - ReservedSum(x)
                         + SumCancelled(DOMAIN orders, x)
                         + SumQty(orders[oid[p]].items, x)
        /\ \A o \in DOMAIN orders :
              (C15_CancelStarts(p, o) /\ orders[o].status = CANCELLED) =>
                  /\ result'[p] = [op |-> "cancel", id |-> o,
                                   out |-> NOT_PENDING_CANCEL]
                  /\ products' = products
                  /\ orders' = orders]_vars

\* C15 witness: an order of two lines was cancelled, a second cancel of it was
\* refused, and every product has its initial stock.
C15_Witness ==
    \E p \in Procs, o \in DOMAIN orders :
        /\ result[p] = [op |-> "cancel", id |-> o, out |-> NOT_PENDING_CANCEL]
        /\ hist.cancelled[o] = 1
        /\ Len(orders[o].items) = 2
        /\ orders[o].status = CANCELLED
        /\ \A x \in DOMAIN products : products[x].stock = InitStock

\* C16: after every step, every order's total is the sum over its items of
\* quantity times the price stored with the item, the stored price is the
\* price of the item's product, and an order that existed before the step
\* has the total and the items it had (whatever processPayment, cancel and
\* updateStatus do to its status).
C16_TotalIsSnapshotSum ==
    [][\A o \in DOMAIN orders' :
        /\ orders'[o].total = SumTotal(orders'[o].items)
        /\ \A i \in DOMAIN orders'[o].items :
              orders'[o].items[i].price = PriceOf(orders'[o].items[i].productId)
        /\ o \in DOMAIN orders =>
              /\ orders'[o].total = orders[o].total
              /\ orders'[o].items = orders[o].items]_vars

\* C16 witness: an order of two lines, of different products and of more than
\* one unit each, has been paid.
C16_Witness ==
    \E o \in DOMAIN orders :
        /\ orders[o].status = CONFIRMED
        /\ Len(orders[o].items) = 2
        /\ orders[o].items[1].productId # orders[o].items[2].productId
        /\ orders[o].items[1].quantity > 1 /\ orders[o].items[2].quantity > 1
        /\ orders[o].total > 0

\* C17: a line of a createOrder call that has the row lock of its product,
\* for quantity q with the stock s as the transaction reads it, is refused
\* with the insufficient-stock error exactly if q > s; otherwise the
\* transaction writes s - q, and a refusal leaves the committed stock alone.
C17_RejectedIffShort ==
    [][\A p \in Procs :
        (/\ pc[p] = "create_item" /\ lines[p] # <<>>
         /\ Head(lines[p]).productId \in DOMAIN products
         /\ RowLockAvailable(p, Head(lines[p]).productId)
         /\ (pc'[p] # pc[p] \/ lines'[p] # lines[p])) =>
            LET x == Head(lines[p]).productId
                q == Head(lines[p]).quantity
                s == TxStock(p, x)
                refused == /\ pc'[p] = "idle"
                           /\ result'[p].out = INSUFFICIENT_STOCK
            IN  /\ refused <=> q > s
                /\ refused => products' = products
                /\ ~refused => /\ pc'[p] = "create_item"
                               /\ tx'[p].stock[x] = s - q]_vars

\* C17 witness: a line for all that is left of a product was accepted and the
\* transaction has written stock 0.
C17_Witness ==
    \E p \in Procs, x \in DOMAIN products :
        /\ pc[p] = "create_item"
        /\ x \in DOMAIN tx[p].stock /\ tx[p].stock[x] = 0
        /\ Len(tx[p].items) = 1
        /\ tx[p].items[1].quantity = products[x].stock

\* C18: a createOrder call for an unknown user id ends with a not-found
\* error (404), and so does one with a line for an unknown product id; neither
\* ends with the insufficient-stock / validation error (400); no order is
\* created and no stock changes.
C18_UnknownIdsAreNotFound ==
    [][\A p \in Procs :
        /\ (/\ Idle(p) /\ calls' # calls /\ pc'[p] = "idle"
            /\ result'[p] # result[p] /\ result'[p].op = "create") =>
                /\ HttpStatus(result'[p].out) = 404
                /\ orders' = orders /\ products' = products
        /\ (/\ pc[p] = "create_item" /\ lines[p] # <<>>
            /\ Head(lines[p]).productId \notin DOMAIN products
            /\ pc'[p] = "idle") =>
                /\ HttpStatus(result'[p].out) = 404
                /\ result'[p].out # INSUFFICIENT_STOCK
                /\ orders' = orders /\ products' = products]_vars

\* a searchProducts call gets a cache hit in this step and returns found'
C19_Hit(p) == pc[p] \in {"search_get", "legacy_get"} /\ pc'[p] = "idle"

\* C19: what a search returns on a cache hit is the payload of an entry that
\* a search for the same normalized query stored: no search is answered from
\* the entry of a search for a different query.
C19_HitOnlyOwnQuery ==
    [][\A p \in Procs :
        C19_Hit(p) =>
            \E key \in DOMAIN cache :
                /\ cache[key].payload = found'[p]
                /\ Normalize(cache[key].query) = Normalize(query[p])]_vars

\* C20: with calls run one after another, what a search returns on a cache
\* hit is what the store holds now for the query that stored the entry: no
\* product that was created since is missing and no stock is the stock
\* before a createOrder or a cancel that has returned.
C20_NoStaleRead ==
    [][\A p \in Procs :
        (pc[p] = "search_get" /\ pc'[p] = "idle") =>
            found'[p] \in FindResults(cache[CacheKey(query[p])].query)]_vars

\* a UsersService handler returns at this step
C21_Returns(p, labels) == pc[p] \in labels /\ pc'[p] = "idle"

\* C21: run one call at a time, create and remove have deleted every cache
\* key that could hold the user when they return (create: 'users:all';
\* remove: 'users:all' and `user:${id}`), so every later read is fresh:
\* findAll returns exactly the rows of the store, findOne(id) returns the user
\* if and only if the store has the row and fails with NotFound otherwise.
C21_MutationsInvalidate ==
    [][\A p \in Procs :
        /\ C21_Returns(p, {"create_del"}) =>
                UsersAllKey \notin DOMAIN cache'
        /\ (C21_Returns(p, {"remove_del_one"}) /\ result'[p].out = OK) =>
                /\ UsersAllKey \notin DOMAIN cache'
                /\ UserKey(uid[p]) \notin DOMAIN cache'
                /\ uid[p] \notin users'
        /\ C21_Returns(p, {"all_get", "all_set"}) => found'[p] = users'
        /\ C21_Returns(p, {"one_get", "one_find", "one_set"}) =>
                /\ result'[p].out = OK <=> uid[p] \in users'
                /\ result'[p].out # OK <=> result'[p].out = USER_MISSING
                /\ result'[p].out = OK => found'[p] = uid[p]]_vars

\* C21 witness: one handler read the list before the create and another reads
\* it after the create and gets the new user; a findOne of a user of the
\* start fails with NotFound, so the user has been removed
C21_Witness ==
    \/ \E p, q \in Procs :
        /\ Quiescent
        /\ result[q] = [op |-> "findAll", id |-> 0, out |-> OK]
        /\ found[q] = UserIds
        /\ result[p] = [op |-> "findAll", id |-> 0, out |-> OK]
        /\ found[p] = UserIds \cup {NumUsers + 1}
    \/ \E p \in Procs, id \in UserIds :
        /\ Quiescent
        /\ result[p] = [op |-> "findOne", id |-> id, out |-> USER_MISSING]

\* handler p takes a step from the label `at`
C22_Moves(p, at) == pc[p] = at /\ pc'[p] # at

\* the read-through rule of one reader: at the label `get`, if the key is in
\* the cache the call ends there and returns the entry's value, without the
\* step that reads the store; if not, the next step (label `find`) reads the
\* store, and the last one (label `set`) stores the value read under the key
\* and returns that value
C22_ReadThrough(p, get, find, set, key, done) ==
    /\ (C22_Moves(p, get) /\ key \in DOMAIN cache) =>
            /\ pc'[p] = done
            /\ found'[p] = cache[key].payload
            /\ cache' = cache
    /\ (C22_Moves(p, get) /\ key \notin DOMAIN cache) =>
            /\ pc'[p] = find
            /\ cache' = cache
    /\ C22_Moves(p, find) => cache' = cache
    /\ C22_Moves(p, set) =>
            /\ pc'[p] = done
            /\ found'[p] = found[p]
            /\ key \in DOMAIN cache'
            /\ cache'[key].payload = found'[p]
            /\ \A k \in DOMAIN cache \ {key} :
                    k \in DOMAIN cache' /\ cache'[k] = cache[k]

\* C22: UsersService.findAll, UsersService.findOne (also as remove calls it)
\* and ProductsService.searchProducts read through the cache: a hit returns
\* the cached value and reads no store; a miss reads the store (the rows of
\* the users table, the row of the id, the rows matching the query) and
\* stores exactly the value it returns under the key of the call.
C22_ReadThroughRule ==
    [][\A p \in Procs :
        /\ C22_ReadThrough(p, "all_get", "all_find", "all_set",
                           UsersAllKey, "idle")
        /\ C22_Moves(p, "all_find") => found'[p] = users
        /\ C22_ReadThrough(p, "one_get", "one_find", "one_set",
                           UserKey(uid[p]), "idle")
        /\ C22_Moves(p, "one_find") =>
                IF uid[p] \in users
                THEN pc'[p] = "one_set" /\ found'[p] = uid[p]
                ELSE pc'[p] = "idle" /\ result'[p].out = USER_MISSING
        /\ C22_ReadThrough(p, "remove_get", "remove_find", "remove_set",
                           UserKey(uid[p]), "remove_delete")
        /\ C22_ReadThrough(p, "search_get", "search_find", "search_set",
                           CacheKey(query[p]), "idle")
        /\ C22_Moves(p, "search_find") =>
                found'[p] \in FindResults(query[p])]_vars

\* C22 witness: a findOne and a search have returned and the cache holds,
\* under their keys, the values they returned
C22_Witness ==
    \E p, q \in Procs :
        /\ Quiescent
        /\ result[p].op = "findOne" /\ result[p].out = OK
        /\ UserKey(result[p].id) \in DOMAIN cache
        /\ cache[UserKey(result[p].id)].payload = found[p]
        /\ result[q].op = "search"
        /\ CacheKey(query[q]) \in DOMAIN cache
        /\ cache[CacheKey(query[q])].payload = found[q]
        /\ found[q] # {}

RECURSIVE Descendants(_)
\* the rows below c in the category table
Descendants(c) == UNION {{d} \cup Descendants(d) : d \in Kids(c)}

RECURSIVE NodeIds(_)
\* the ids of the nodes of a returned tree
NodeIds(t) ==
    {t.id} \cup UNION {NodeIds(k) : k \in t.children \cup t.parent}

\* C23: getCategoryTree, and its builder on an object graph whose parent and
\* children references are all populated, returns a tree for every category
\* row it is started on (a leaf included): it throws nothing, the root of the
\* tree is the starting row, and every node of the tree is the starting row
\* or one of its descendants, never an ancestor.
C23_TreeOfDescendants ==
    \A p \in Procs :
        (result[p].op \in {"getCategoryTree", "buildTree"}
            /\ result[p].id \in DOMAIN categories) =>
                /\ result[p].out = OK
                /\ tree[p].id = result[p].id
                /\ NodeIds(tree[p]) \subseteq
                        {result[p].id} \cup Descendants(result[p].id)

\* C24: the end-to-end scenario, one call at a time on products with stock
\* WidgetStock (5) and orders of WidgetQty (3) units: a createOrder that
\* succeeds found the stock at 5, leaves it at 2 and stores the total
\* 3 x price; a createOrder that is refused (InsufficientStock) found the
\* stock at 2 and leaves it there; a cancel that succeeds returns the stock of
\* the order's product to 5.
C24_EndToEnd ==
    [][\A p \in Procs :
        /\ (pc[p] = "create_item" /\ pc'[p] = "idle" /\ result'[p].out = OK) =>
                LET x == tx[p].items[1].productId
                    o == result'[p].id
                IN /\ products[x].stock = WidgetStock
                   /\ products'[x].stock = WidgetStock - WidgetQty
                   /\ orders'[o].total = WidgetQty * products[x].price
                   /\ orders'[o].status = PENDING
        /\ (pc[p] = "create_item" /\ pc'[p] = "idle" /\ result'[p].out # OK) =>
                LET x == Head(lines[p]).productId
                IN /\ result'[p].out = INSUFFICIENT_STOCK
                   /\ products[x].stock = WidgetStock - WidgetQty
                   /\ products' = products
                   /\ orders' = orders
        /\ (pc[p] = "cancel_save" /\ pc'[p] = "idle") =>
                LET x == orders[oid[p]].items[1].productId
                IN /\ result'[p].out = OK
                   /\ products'[x].stock = WidgetStock
                   /\ orders'[oid[p]].status = CANCELLED]_vars

\* C24 witness: the whole scenario has run: the first order is cancelled, the
\* second createOrder was refused and left no order, and the stock of the
\* product is back at WidgetStock
C24_Witness ==
    \E p, q \in Procs :
        /\ Quiescent
        /\ result[p].op = "create" /\ result[p].out = INSUFFICIENT_STOCK
        /\ result[q] = [op |-> "cancel", id |-> 1, out |-> OK]
        /\ DOMAIN orders = {1}
        /\ orders[1].status = CANCELLED
        /\ orders[1].total = WidgetQty * products[orders[1].items[1].productId].price
        /\ products[orders[1].items[1].productId].stock = WidgetStock

\* C25: cancel is all-or-nothing together with the status flip: in every
\* reachable state an order is cancelled if and only if the quantities of all
\* its lines have been released, and no state shows an order some of whose
\* lines are released and some are not (so a cancel that stops part-way has
\* released nothing and a retry releases no line twice).
C25_CancelAtomic ==
    \A o \in DOMAIN orders :
        /\ orders[o].status = CANCELLED <=>
                hist.releases[o] = Len(orders[o].items)
        /\ hist.releases[o] \in {0, Len(orders[o].items)}

\* the orders that are not cancelled
C26_Live == {o \in DOMAIN orders : orders[o].status # CANCELLED}

\* for every product, stock + quantities in the orders that are not cancelled
\* is the stock of the start
C26_Conserved ==
    \A x \in ProductIds :
        products[x].stock + SumOrders(C26_Live, x) = InitStock

\* C26 (as stated): after any sequence of createOrder, processPayment, cancel
\* and updateStatus calls run one at a time, for every product the current
\* stock plus the quantities of the product in all orders whose status is not
\* cancelled equals the product's initial stock.
C26_StockConservation == Quiescent => C26_Conserved

\* C26 (amended): the equation holds after any sequence of createOrder,
\* processPayment and cancel calls run one at a time, that is, as long as no
\* updateStatus call has written a status.
C26_ConservationWithoutOverride ==
    (Quiescent /\ ~hist.overridden) => C26_Conserved

\* C26 witness: no updateStatus has run; one order is cancelled and its stock
\* is back, another one is not cancelled and holds its stock
C26_Witness ==
    /\ Quiescent
    /\ ~hist.overridden
    /\ \E o1, o2 \in DOMAIN orders :
        /\ orders[o1].status = CANCELLED
        /\ orders[o2].status # CANCELLED
        /\ \E x \in ProductIds :
            SumQty(orders[o1].items, x) > 0 /\ SumQty(orders[o2].items, x) > 0

\* a started createOrder call that can take its next step: it needs no row
\* lock another transaction holds, or the store ends its wait by failing it
C27_CanMove(p) == pc[p] = "create_item" /\ (Holder(p) = 0 \/ Deadlocked(p))

C28_NoStaleEntry ==
    Quiescent =>
        /\ UsersAllKey \in DOMAIN cache => cache[UsersAllKey].payload = users
        /\ \A id \in ReqUserIds :
                UserKey(id) \in DOMAIN cache => id \in users

\* a step of the createOrder call of handler p
C29_CreateStep(p) ==
    \/ pc[p] = "idle" /\ pc'[p] = "create_item"
    \/ pc[p] = "create_item" /\ (pc'[p] # pc[p] \/ tx'[p] # tx[p])

\* C29: createOrder decides whether the user exists from the committed users
\* table, never from the cache: a call goes on past the lookup only if the
\* store has the row at that time, a call is refused with 'User not found'
\* only for an id the store has no row of (whatever `user:${id}` entry the
\* cache holds), and no step of createOrder changes the cache.
C29_UserFromStore ==
    [][/\ \A p \in Procs :
            /\ (pc[p] = "idle" /\ pc'[p] = "create_item") =>
                    tx'[p].userId \in users
            /\ C29_CreateStep(p) => cache' = cache
       /\ (pc' = pc /\ calls' = calls + 1) =>
            /\ cache' = cache
            /\ \E p \in Procs :
                /\ result'[p].op = "create"
                /\ result'[p].out = USER_NOT_FOUND
                /\ result'[p].id \notin users
                /\ \A q \in Procs \ {p} : result'[q] = result[q]]_vars

\* C29 witness: a user of the start has been removed by one handler; the
\* other one's findOne stored its entry after the removal, and its createOrder
\* for that user was then refused with the entry still in the cache
C29_Witness ==
    \E p, q \in Procs, id \in UserIds :
        /\ p # q
        /\ Quiescent
        /\ result[q] = [op |-> "removeUser", id |-> id, out |-> OK]
        /\ result[p] = [op |-> "create", id |-> id, out |-> USER_NOT_FOUND]
        /\ UserKey(id) \in DOMAIN cache
        /\ id \notin users

\* what the lines that transaction p has reserved so far leave of product x
C30_Left(p, x) == products[x].stock - SumQty(tx[p].items, x)

\* C30: the stock checks of one createOrder request are cumulative: every
\* line, also one of a product that an earlier line of the request names, is
\* accepted if and only if its quantity is at most the committed stock minus
\* the quantities of the earlier lines of that product; a request that
\* commits asked in total for at most the stock of each product, and the
\* commit lowers each stock by exactly that total.
C30_CumulativeChecks ==
    [][\A p \in Procs :
        (pc[p] = "create_item" /\ lines[p] # <<>>
            /\ Head(lines[p]).productId \in DOMAIN products) =>
            LET d == Head(lines[p]) IN
            /\ (tx'[p] # tx[p] /\ pc'[p] = "create_item") =>
                    /\ d.quantity <= C30_Left(p, d.productId)
                    /\ products'[d.productId].stock
                            - SumQty(tx'[p].items, d.productId) =
                                C30_Left(p, d.productId) - d.quantity
            /\ (pc'[p] = "idle" /\ result'[p].out = INSUFFICIENT_STOCK) =>
                    d.quantity > C30_Left(p, d.productId)]_vars
    /\ [][\A p \in Procs :
            (pc[p] = "create_item" /\ pc'[p] = "idle" /\ result'[p].out = OK) =>
                \A x \in DOMAIN products :
                    /\ SumQty(tx[p].items, x) <= products[x].stock
                    /\ products'[x].stock =
                            products[x].stock - SumQty(tx[p].items, x)]_vars

\* C30 witness: an order with two lines of the same product has committed and
\* the stock of the product is lower by the sum of the two quantities, which
\* is all of it
C30_Witness ==
    \E p \in Procs, o \in DOMAIN orders :
        /\ Quiescent
        /\ result[p] = [op |-> "create", id |-> o, out |-> OK]
        /\ DOMAIN orders = {o}
        /\ Len(orders[o].items) = 2
        /\ orders[o].items[1].productId = orders[o].items[2].productId
        /\ LET x == orders[o].items[1].productId IN
            /\ SumQty(orders[o].items, x) = InitStock
            /\ products[x].stock = 0

RECURSIVE C31_Subtree(_)
\* the whole tree below the category row c: every row under its parent
C31_Subtree(c) ==
    [id |-> c,
     children |-> {C31_Subtree(d) : d \in Kids(c)},
     parent |-> {},
     error |-> NoError]

\* C31: getCategoryTree returns the entire subtree of the starting category:
\* every descendant, at every depth, is in the returned tree under its
\* parent, not only the direct children.
C31_WholeSubtree ==
    \A p \in Procs :
        (result[p].op = "getCategoryTree"
            /\ result[p].id \in DOMAIN categories) =>
                /\ result[p].out = OK
                /\ tree[p] = C31_Subtree(result[p].id)

\* the raw query strings that share the cache key of q
C32_SameKey(q) == {r \in Queries : CacheKey(r) = CacheKey(q)}

\* C32: the entry that searchProducts stores serves every raw query string
\* with the same normalized key: when a search stores the rows it has just
\* read, the store query of every raw query that normalizes (lower-case,
\* trim) to the same key returns those same rows, so a later hit returns what
\* the caller's own query would have read.
C32_EntryServesEveryQuery ==
    [][\A p \in Procs :
        (pc[p] = "search_set" /\ pc'[p] = "idle") =>
            \A r \in C32_SameKey(query[p]) : found[p] \in FindResults(r)]_vars

\* 200 * (1 + 2 + 4 + 8) + 4 * 100 = 3400 ms
C33_TotalBound ==
    BASE_DELAY * (2 ^ (MAX_ATTEMPTS - 1) - 1) + (MAX_ATTEMPTS - 1) * JITTER

\* C33: processPayment does not wait after its final failed attempt: a wait
\* starts only after one of the attempts 1..MAX_ATTEMPTS-1, each of them is
\* followed by at most one wait, and the waits of one call add up to less
\* than 200 * (1 + 2 + 4 + 8) + 4 * 100 = 3400 ms.
C33_NoWaitAfterLastAttempt ==
    [][\A p \in Procs :
        /\ (pc[p] = "pay_call" /\ pc'[p] # "pay_call") =>
                /\ attempt[p] = MAX_ATTEMPTS => pc'[p] \in {"idle", "pay_save"}
                /\ pc'[p] = "pay_wait" =>
                        /\ attempt[p] \in 1..(MAX_ATTEMPTS - 1)
                        /\ waited'[p] = waited[p] + delay'[p]
                        /\ waited'[p] < C33_TotalBound
        /\ (pc[p] = "pay_wait" /\ pc'[p] # "pay_wait") =>
                /\ pc'[p] = "pay_call"
                /\ attempt'[p] = attempt[p] + 1
                /\ waited'[p] = waited[p]]_vars

\* C33 witness: the call is at its last attempt after four waits with the
\* greatest jitter each, 3396 ms in all
C33_Witness ==
    \E p \in Procs :
        /\ pc[p] = "pay_call"
        /\ attempt[p] = MAX_ATTEMPTS
        /\ waited[p] = C33_TotalBound - (MAX_ATTEMPTS - 1)

====
